---- MODULE Spec2Model ----
(***************************************************************************)
(* The sync dispatch pipeline of portcullis-app: the three POST handlers   *)
(* that create a row of the `syncs` table and trigger the provisioning     *)
(* workflow, and the `sources` routes that share the record store.         *)
(*                                                                         *)
(*   handler "A"  src/unnamed/part_002 lines   1-194                       *)
(*   handler "B"  src/unnamed/part_002 lines 195-399                       *)
(*   handler "C"  src/unnamed/part_003                                     *)
(*   sources      src/unnamed/part_001                                     *)
(*                                                                         *)
(* A handler is an async function: one action per awaited call.            *)
(***************************************************************************)
EXTENDS Integers, Sequences, FiniteSets, TLC

\* ------------------------------------------------------------------ bounds
NumReq == 2
MaxTables == 2

Req == 1..NumReq

\* ------------------------------------------------------------ JSON values
Undefined == [t |-> "undefined"]
Str(s) == [t |-> "string", v |-> s]
Obj(ks) == [t |-> "object", keys |-> ks]

\* the elements of a list
Range(l) == {l[i] : i \in DOMAIN l}

\* the number n/d
Num(n, d) == [t |-> "number", num |-> n, den |-> d]

\* the values of options.mode
Stream == Str(<<"s", "t", "r", "e", "a", "m">>)
Batch == Str(<<"b", "a", "t", "c", "h">>)

\* an options object; extra: it has a key other than mode and batchSize
Options(m, bs, ext) == [t |-> "object", mode |-> m, batchSize |-> bs, extra |-> ext]

\* String.prototype.toLowerCase on one character of the modelled alphabet
LowerChar(c) ==
    CASE c = "C" -> "c"
      [] c = "H" -> "h"
      [] OTHER -> c

\* String.prototype.toLowerCase, strings being sequences of characters
ToLowerCase(s) == [i \in DOMAIN s |-> LowerChar(s[i])]

IsNonEmptyString(x) == x.t = "string" /\ x.v # <<>>

\* the default of destinationConfigSchema.options
DefaultOptions == Options(Stream, Num(10000, 1), FALSE)

DestConfig(opts, ext) ==
    [t |-> "object", type |-> Str(<<"w">>), credentials |-> Obj({"token"}),
     options |-> opts, extra |-> ext]

\* the request bodies the clients send: text that is not JSON, or an object
NotJson ==
    [json |-> FALSE, organization |-> Undefined, internal_warehouse |-> Undefined,
     link_type |-> Undefined, internal_credentials |-> Undefined,
     destination_config |-> Undefined, destinationConfig |-> Undefined,
     extra |-> FALSE]

JsonBody(org, lt, dc) ==
    [json |-> TRUE, organization |-> org, internal_warehouse |-> Str(<<"w">>),
     link_type |-> lt,
     internal_credentials |-> Obj({"host", "username", "password", "database"}),
     destination_config |-> dc, destinationConfig |-> Undefined,
     extra |-> FALSE]

\* a body the schema accepts
GoodBody == JsonBody(Str(<<"o">>), Str(<<"C", "h">>), DestConfig(Undefined, FALSE))

\* organization: ""
EmptyOrgBody == JsonBody(Str(<<>>), Str(<<"C", "h">>), DestConfig(Undefined, FALSE))

\* no link_type
NoLinkTypeBody == JsonBody(Str(<<"o">>), Undefined, DestConfig(Undefined, FALSE))

Bodies == {NotJson, GoodBody, EmptyOrgBody, NoLinkTypeBody}

\* GoodBody with destination_config.options o
WithOptions(o) == [GoodBody EXCEPT !.destination_config.options = o]

\* GoodBody with internal_credentials of keys ks
WithCredentials(ks) == [GoodBody EXCEPT !.internal_credentials = Obj(ks)]

\* bodies with a key the schema does not know: at the top level, in
\* destination_config, in destination_config.options
UnknownKeyBodies ==
    {[GoodBody EXCEPT !.extra = TRUE],
     [GoodBody EXCEPT !.destination_config.extra = TRUE],
     WithOptions(Options(Batch, Num(500, 1), TRUE))}

\* bodies with options: {}, a full one, an unknown mode, and batchSize 0, -1,
\* 3/2 and "5"
OptionsBodies ==
    {WithOptions(Options(Undefined, Undefined, FALSE)),
     WithOptions(Options(Batch, Num(500, 1), FALSE)),
     WithOptions(Options(Str(<<"x">>), Num(500, 1), FALSE)),
     WithOptions(Options(Stream, Num(0, 1), FALSE)),
     WithOptions(Options(Stream, Num(-1, 1), FALSE)),
     WithOptions(Options(Stream, Num(3, 2), FALSE)),
     WithOptions(Options(Stream, Str(<<"5">>), FALSE))}

\* the link type "clickhouse"
Clickhouse == Str(<<"c", "l", "i", "c", "k", "h", "o", "u", "s", "e">>)

\* bodies with internal_credentials {}, {host} and none, with
\* destination_config.credentials {}, and of link type clickhouse with
\* internal_credentials {host} and {host, port, database, user, password}
CredentialsBodies ==
    {WithCredentials({}),
     WithCredentials({"host"}),
     [WithCredentials({"host"}) EXCEPT !.link_type = Clickhouse],
     [WithCredentials({"host", "port", "database", "user", "password"})
        EXCEPT !.link_type = Clickhouse],
     [GoodBody EXCEPT !.internal_credentials = Undefined],
     [GoodBody EXCEPT !.destination_config.credentials = Obj({})]}

\* the bodies of the specification of one request
AllBodies == Bodies \cup UnknownKeyBodies \cup OptionsBodies \cup CredentialsBodies

\* destinationConfigSchema (z.object(...).strict()) applied to one value
DestinationConfigOK(dc) ==
    /\ dc.t = "object"
    /\ dc.type.t = "string"
    /\ dc.credentials.t = "object"
    /\ \/ dc.options.t = "undefined"
       \/ /\ dc.options.t = "object"
          /\ dc.options.mode \in {Undefined, Stream, Batch}
          /\ dc.options.batchSize.t \in {"undefined", "number"}
    /\ ~dc.extra

\* the data of z.object({mode, batchSize}): each missing key gets its
\* default, a key the schema does not know is dropped
OptionsData(o) ==
    Options(IF o.mode = Undefined THEN Stream ELSE o.mode,
            IF o.batchSize = Undefined THEN Num(10000, 1) ELSE o.batchSize,
            FALSE)

\* the data of destinationConfigSchema: options with its default resolved
DestinationConfigData(dc) ==
    [dc EXCEPT !.options = IF dc.options.t = "undefined" THEN DefaultOptions
                           ELSE OptionsData(dc.options)]

\* requestSchema.safeParse(rawBody).success
RequestSchemaOK(b) ==
    /\ IsNonEmptyString(b.organization)
    /\ IsNonEmptyString(b.internal_warehouse)
    /\ IsNonEmptyString(b.link_type)
    /\ b.internal_credentials.t = "object"
    /\ DestinationConfigOK(b.destination_config)
    /\ ~b.extra

\* requestSchema.safeParse(rawBody).data
RequestSchemaData(b) ==
    [b EXCEPT !.destination_config = DestinationConfigData(b.destination_config)]


\* ------------------------------------------------------------- the source
TableNames == <<"events", "users", "orders", "items">>

\* the answers SHOW TABLES can give: a source without tables, or with MaxTables
TableLists == {<<>>, SubSeq(TableNames, 1, MaxTables)}

\* what SELECT * FROM t returns to request r
RowsOf(r, t) == [table |-> t, readBy |-> r]

\* JSON.stringify of a value
JSONStringify(x) == [t |-> "json", v |-> x]

\* ------------------------------------------------------------- responses
Null == 0
Absent == -1

NoResponse == [status |-> 0]

ValidationFailed ==
    [status |-> 400, success |-> FALSE, syncId |-> Absent, error |-> "Validation failed"]

DatabaseError ==
    [status |-> 500, success |-> FALSE, syncId |-> Absent, error |-> "Database error"]

NoDataReturned ==
    [status |-> 500, success |-> FALSE, syncId |-> Absent,
     error |-> "Failed to create sync record: No data returned"]

\* a faulty variant of GitHubError: the 422 response without the id of the record
GitHubErrorNoId(id) ==
    [status |-> 422, success |-> FALSE, syncId |-> Null, error |-> "GitHub API error"]

GitHubError(id) ==
    [status |-> 422, success |-> FALSE, syncId |-> id, error |-> "GitHub API error"]

Success(id) ==
    [status |-> 200, success |-> TRUE, syncId |-> id, error |-> ""]

\* a faulty variant of CaughtError: the catch block answers without the id
CaughtErrorNoId(id, msg) ==
    [status |-> 500, success |-> FALSE, syncId |-> Null, error |-> msg]

\* the response of the handler's catch block
CaughtError(id, msg) ==
    [status |-> 500, success |-> FALSE, syncId |-> id, error |-> msg]

\* ------------------------------------------------------------------ state
VARIABLES
    handler,      \* which POST handler serves the request ("none" before it arrives)
    body,         \* the text of the request body
    bodyUsed,     \* Request.bodyUsed: the body stream has been read
    pc,           \* the await the handler is suspended at
    vbody,        \* validationResult.data / body
    syncId,       \* let syncId: string | null
    gtdTables,    \* getTableData: const tables
    idx,          \* getTableData: position of the for loop
    allTableData, \* getTableData: allTableData
    data,         \* POST: const data
    tables,       \* POST: const tables
    response,     \* the response returned, NoResponse while there is none
    trace,        \* history: the external calls of the request, in order
    dispatches,   \* history: the payloads handed to the workflow trigger
    created,      \* history: the ids of the rows the request inserted
    syncs,        \* the rows of table syncs, by id
    nextId,       \* the id the store gives to the next row of syncs
    sources,      \* the rows of table sources, by id
    nextSourceId, \* the id the store gives to the next row of sources
    clients,      \* the number of ClickhouseClient objects of the request that
                  \* hold a connection to the source
    session       \* the session of the caller of a sources route, what auth()
                  \* returns for the request

\* the local variables of a handler's activation
locals == <<vbody, syncId, gtdTables, idx, allTableData, data, tables>>
history == <<trace, dispatches, created>>
reqVars == <<handler, body, bodyUsed, pc, response, locals, history>>
syncsVars == <<syncs, nextId>>
sourcesVars == <<sources, nextSourceId>>
vars == <<reqVars, syncsVars, sourcesVars, clients, session>>

\* the request of a client that is not signed in
NoSession == [userId |-> "", orgId |-> "", orgSlug |-> ""]

NoData == [t |-> "undefined"]
EmptyMap == [x \in {} |-> 0]

Init ==
    /\ handler = [r \in Req |-> "none"]
    /\ body = [r \in Req |-> NotJson]
    /\ bodyUsed = [r \in Req |-> FALSE]
    /\ pc = [r \in Req |-> "idle"]
    /\ vbody = [r \in Req |-> Undefined]
    /\ syncId = [r \in Req |-> Null]
    /\ gtdTables = [r \in Req |-> <<>>]
    /\ idx = [r \in Req |-> 0]
    /\ allTableData = [r \in Req |-> EmptyMap]
    /\ data = [r \in Req |-> NoData]
    /\ tables = [r \in Req |-> <<>>]
    /\ response = [r \in Req |-> NoResponse]
    /\ trace = [r \in Req |-> <<>>]
    /\ clients = [r \in Req |-> 0]
    /\ session = [r \in Req |-> NoSession]
    /\ dispatches = [r \in Req |-> <<>>]
    /\ created = [r \in Req |-> {}]
    /\ syncs = EmptyMap
    /\ nextId = 1
    /\ sources = EmptyMap
    /\ nextSourceId = 1

\* --------------------------------------------------------- control points
FirstPc(h) ==
    CASE h = "A" -> "A_json"
      [] h = "B" -> "B_gtd_json"
      [] h = "C" -> "C_json"

\* handler B calls getTableData before its try block (line 299)
OutsideTry == {"B_gtd_json", "B_gtd_gat_json", "B_gtd_tables", "B_gtd_loop"}

JsonPcs == {"A_json", "B_gtd_json", "B_gtd_gat_json", "B_json", "B_gat_json", "C_json"}

\* the reads of the body in getAllTables/getTableData of handler B, each
\* followed by body.internal_credentials.host
CredentialReads == {"B_gtd_json", "B_gtd_gat_json", "B_gat_json"}

AfterJson(p) ==
    CASE p = "A_json" -> "A_validate"
      [] p = "B_gtd_json" -> "B_gtd_gat_json"
      [] p = "B_gtd_gat_json" -> "B_gtd_tables"
      [] p = "B_json" -> "B_validate"
      [] p = "B_gat_json" -> "B_tables"
      [] p = "C_json" -> "C_insert"

\* where getTableData returns to
AfterExtract(p) ==
    CASE p \in {"A_gtd_tables", "A_gtd_loop"} -> "A_tables"
      [] p \in {"B_gtd_tables", "B_gtd_loop"} -> "B_json"

\* history: the request made the calls es
Log(r, es) == trace' = [trace EXCEPT ![r] = @ \o es]

\* the activation ends: its local variables are gone
Exit(r) ==
    /\ vbody' = [vbody EXCEPT ![r] = Undefined]
    /\ syncId' = [syncId EXCEPT ![r] = Null]
    /\ gtdTables' = [gtdTables EXCEPT ![r] = <<>>]
    /\ idx' = [idx EXCEPT ![r] = 0]
    /\ allTableData' = [allTableData EXCEPT ![r] = EmptyMap]
    /\ data' = [data EXCEPT ![r] = NoData]
    /\ tables' = [tables EXCEPT ![r] = <<>>]

\* return NextResponse.json(resp)
Return(r, resp) ==
    /\ pc' = [pc EXCEPT ![r] = "done"]
    /\ response' = [response EXCEPT ![r] = resp]
    /\ Exit(r)

\* an exception raised at the current await: the handler's catch block
\* answers it with the current syncId, unless the await lies outside the
\* try block and the exception leaves the handler
Throw(r, msg) ==
    IF pc[r] \in OutsideTry
    THEN /\ pc' = [pc EXCEPT ![r] = "escaped"]
         /\ UNCHANGED response
         /\ Exit(r)
    ELSE Return(r, CaughtError(syncId[r], msg))

Goto(r, p) ==
    /\ pc' = [pc EXCEPT ![r] = p]
    /\ UNCHANGED response

\* ---------------------------------------------------------------- actions
\* a client sends a request to one of the handlers
Receive(r) ==
    /\ pc[r] = "idle"
    /\ IF r = 1 THEN TRUE ELSE pc[r - 1] # "idle"
    /\ \E h \in {"A", "B", "C"}, b \in Bodies :
         /\ handler' = [handler EXCEPT ![r] = h]
         /\ body' = [body EXCEPT ![r] = b]
         /\ pc' = [pc EXCEPT ![r] = FirstPc(h)]
    /\ UNCHANGED <<bodyUsed, response, locals, history, syncsVars, sourcesVars,
                   clients, session>>

\* a client sends the only request, with any of the bodies
ReceiveOne ==
    /\ pc[1] = "idle"
    /\ \E h \in {"A", "B", "C"}, b \in AllBodies :
         /\ handler' = [handler EXCEPT ![1] = h]
         /\ body' = [body EXCEPT ![1] = b]
         /\ pc' = [pc EXCEPT ![1] = FirstPc(h)]
    /\ UNCHANGED <<bodyUsed, response, locals, history, syncsVars, sourcesVars,
                   clients, session>>

\* a faulty variant of BodyUnusable: a body that can be read again and again
BodyRereadable(r) == FALSE

\* Request.json() rejects when the body stream has already been read
BodyUnusable(r) == bodyUsed[r]

\* await request.json(), and the synchronous code up to the next await
ReadBody(r) ==
    /\ pc[r] \in JsonPcs
    /\ bodyUsed' = [bodyUsed EXCEPT ![r] = TRUE]
    /\ IF BodyUnusable(r)
       THEN Log(r, <<"json_used">>) /\ Throw(r, "Body has already been read")
       ELSE IF ~body[r].json
       THEN Log(r, <<"json_fail">>) /\ Throw(r, "Invalid JSON")
       ELSE IF pc[r] \in CredentialReads /\ body[r].internal_credentials.t # "object"
       THEN Log(r, <<"json_ok">>) /\ Throw(r, "Cannot read properties of undefined")
       ELSE IF pc[r] = "C_json" /\ body[r].link_type.t # "string"
       THEN Log(r, <<"json_ok">>) /\ Throw(r, "toLowerCase is not a function")
       ELSE /\ Log(r, <<"json_ok">>)
            /\ Goto(r, AfterJson(pc[r]))
            /\ vbody' = IF pc[r] = "C_json" THEN [vbody EXCEPT ![r] = body[r]]
                        ELSE vbody
            /\ UNCHANGED <<syncId, gtdTables, idx, allTableData, data, tables>>
    /\ UNCHANGED <<handler, body, dispatches, created, syncsVars, sourcesVars,
                   clients, session>>

\* requestSchema.safeParse(rawBody)
Validate(r) ==
    /\ pc[r] \in {"A_validate", "B_validate"}
    /\ IF RequestSchemaOK(body[r])
       THEN /\ Log(r, <<"valid">>)
            /\ Goto(r, IF pc[r] = "A_validate" THEN "A_gtd_tables" ELSE "B_insert")
            /\ vbody' = [vbody EXCEPT ![r] = RequestSchemaData(body[r])]
            /\ UNCHANGED <<syncId, gtdTables, idx, allTableData, data, tables>>
       ELSE /\ Log(r, <<"invalid">>)
            /\ Return(r, ValidationFailed)
    /\ UNCHANGED <<handler, body, bodyUsed, dispatches, created, syncsVars,
                   sourcesVars, clients, session>>

\* the first query a ClickhouseClient of the request completes: the client now
\* holds a keep-alive connection to the source; no code calls its close()
Connected(r) == clients' = [clients EXCEPT ![r] = @ + 1]

\* a faulty variant of OnNoTables: a source without tables is an error
OnNoTablesThrow(r) ==
    /\ Log(r, <<"show_tables_ok", "no_tables">>)
    /\ Throw(r, "No tables found")

\* getTableData when the source lists no table: the loop has no turn and
\* the function returns the empty map
OnNoTables(r) ==
    /\ Log(r, <<"show_tables_ok", "no_tables", "extracted">>)
    /\ gtdTables' = [gtdTables EXCEPT ![r] = <<>>]
    /\ idx' = [idx EXCEPT ![r] = 1]
    /\ allTableData' = [allTableData EXCEPT ![r] = EmptyMap]
    /\ data' = [data EXCEPT ![r] = EmptyMap]
    /\ Goto(r, AfterExtract(pc[r]))
    /\ UNCHANGED <<vbody, syncId, tables>>

\* getAllTables: SHOW TABLES on the source; it answers with a list or fails
ShowTables(r) ==
    /\ pc[r] \in {"A_gtd_tables", "B_gtd_tables", "A_tables", "B_tables"}
    /\ \E ok \in BOOLEAN, ans \in TableLists :
         IF ~ok
         THEN /\ Log(r, <<"show_tables_fail">>)
              /\ Throw(r, "SHOW TABLES failed")
              /\ UNCHANGED clients
         ELSE IF pc[r] \in {"A_gtd_tables", "B_gtd_tables"} /\ ans = <<>>
         THEN OnNoTables(r) /\ Connected(r)
         ELSE IF pc[r] \in {"A_gtd_tables", "B_gtd_tables"}
         THEN \* line 75/274, inside getTableData
              /\ Log(r, <<"show_tables_ok">>)
              /\ Connected(r)
              /\ gtdTables' = [gtdTables EXCEPT ![r] = ans]
              /\ idx' = [idx EXCEPT ![r] = 1]
              /\ allTableData' = [allTableData EXCEPT ![r] = EmptyMap]
              /\ Goto(r, IF pc[r] = "A_gtd_tables" THEN "A_gtd_loop"
                         ELSE "B_gtd_loop")
              /\ UNCHANGED <<vbody, syncId, data, tables>>
         ELSE \* line 120/355, in POST
              /\ Log(r, <<"show_tables_ok">>)
              /\ Connected(r)
              /\ tables' = [tables EXCEPT ![r] = ans]
              /\ Goto(r, IF pc[r] = "A_tables" THEN "A_insert" ELSE "B_dispatch")
              /\ UNCHANGED <<vbody, syncId, gtdTables, idx, allTableData, data>>
    /\ UNCHANGED <<handler, body, bodyUsed, dispatches, created, syncsVars,
                   sourcesVars, session>>

\* a faulty variant of OnSelectFailure: the failed table is skipped and the
\* loop goes on with the tables it could read
OnSelectFailureSkip(r) ==
    /\ Log(r, IF idx[r] = Len(gtdTables[r]) THEN <<"select_fail", "extracted">>
               ELSE <<"select_fail">>)
    /\ idx' = [idx EXCEPT ![r] = @ + 1]
    /\ IF idx[r] = Len(gtdTables[r])
       THEN /\ data' = [data EXCEPT ![r] = allTableData[r]]
            /\ Goto(r, AfterExtract(pc[r]))
       ELSE /\ UNCHANGED data
            /\ UNCHANGED <<pc, response>>
    /\ UNCHANGED <<vbody, syncId, gtdTables, allTableData, tables>>

\* the query of one table is rejected: the exception leaves the loop and
\* getTableData rethrows it, the tables read so far are dropped
OnSelectFailure(r) ==
    /\ Log(r, <<"select_fail">>)
    /\ Throw(r, "SELECT failed")

\* a faulty variant of NextTable: the list is walked from its end
NextTableReversed(r) == gtdTables[r][Len(gtdTables[r]) - idx[r] + 1]

\* for (const table of tables): the table of the current turn
NextTable(r) == gtdTables[r][idx[r]]

\* getTableData: one turn of the loop, SELECT * FROM table
SelectTable(r) ==
    /\ pc[r] \in {"A_gtd_loop", "B_gtd_loop"}
    /\ \E ok \in BOOLEAN :
         LET t == NextTable(r)
             read == [x \in DOMAIN allTableData[r] \cup {t} |->
                        IF x = t THEN RowsOf(r, t) ELSE allTableData[r][x]]
         IN IF ~ok
            THEN OnSelectFailure(r) /\ UNCHANGED clients
            ELSE /\ Log(r, IF idx[r] = Len(gtdTables[r])
                            THEN <<"select_ok", "extracted">>
                            ELSE <<"select_ok">>)
                 /\ IF idx[r] = 1 THEN Connected(r) ELSE UNCHANGED clients
                 /\ allTableData' = [allTableData EXCEPT ![r] = read]
                 /\ idx' = [idx EXCEPT ![r] = @ + 1]
                 /\ IF idx[r] = Len(gtdTables[r])
                    THEN /\ data' = [data EXCEPT ![r] = read]
                         /\ Goto(r, AfterExtract(pc[r]))
                    ELSE /\ UNCHANGED data
                         /\ UNCHANGED <<pc, response>>
                 /\ UNCHANGED <<vbody, syncId, gtdTables, tables>>
    /\ UNCHANGED <<handler, body, bodyUsed, dispatches, created, syncsVars,
                   sourcesVars, session>>

\* the row handlers A and B insert: link_type in lower case, the validated
\* destination_config, no status
RowAB(b) ==
    [organization |-> b.organization,
     internal_warehouse |-> b.internal_warehouse,
     link_type |-> Str(ToLowerCase(b.link_type.v)),
     internal_credentials |-> b.internal_credentials,
     destination_config |-> b.destination_config,
     status |-> "column_default"]

\* the row handler C inserts: body.link_type as sent, body.destinationConfig
RowC(b) ==
    [organization |-> b.organization,
     internal_warehouse |-> b.internal_warehouse,
     link_type |-> b.link_type,
     internal_credentials |-> b.internal_credentials,
     destination_config |-> b.destinationConfig,
     status |-> "active"]

\* a faulty variant of InsertRow: an upsert on (organization, internal_warehouse)
InsertRowUpsert(row) ==
    IF \E i \in DOMAIN syncs : /\ syncs[i].organization = row.organization
                               /\ syncs[i].internal_warehouse = row.internal_warehouse
    THEN [i \in DOMAIN syncs |->
            IF /\ syncs[i].organization = row.organization
               /\ syncs[i].internal_warehouse = row.internal_warehouse
            THEN row ELSE syncs[i]]
    ELSE [i \in DOMAIN syncs \cup {nextId} |-> IF i = nextId THEN row ELSE syncs[i]]

\* the table syncs after the store has inserted a row under a fresh id
InsertRow(row) ==
    [i \in DOMAIN syncs \cup {nextId} |-> IF i = nextId THEN row ELSE syncs[i]]

\* a faulty variant of OnInsertFailure: the failed insert is ignored and the
\* handler goes on to dispatch
OnInsertFailureIgnored(r, res) ==
    /\ pc' = [pc EXCEPT ![r] = IF pc[r] = "C_insert" THEN "C_dispatch"
                               ELSE "A_dispatch"]
    /\ UNCHANGED <<response, locals>>

\* the handler after an insert that returned no row: A and B answer 500,
\* C throws (syncError) or fails on syncData.id (no data)
OnInsertFailure(r, res) ==
    IF pc[r] = "C_insert"
    THEN Throw(r, "Failed to create sync record")
    ELSE Return(r, IF res = "error" THEN DatabaseError ELSE NoDataReturned)

\* supabase.from('syncs').insert(row).select().single(): the store adds the
\* row and returns it, or fails with an error, or returns neither
Insert(r) ==
    /\ pc[r] \in {"A_insert", "B_insert", "C_insert"}
    /\ \E res \in {"row", "error", "nothing"} :
         IF res = "row"
         THEN /\ Log(r, <<"insert_ok">>)
              /\ syncs' = InsertRow(IF pc[r] = "C_insert" THEN RowC(vbody[r])
                                    ELSE RowAB(vbody[r]))
              /\ nextId' = nextId + 1
              /\ created' = [created EXCEPT ![r] = @ \cup {nextId}]
              /\ syncId' = [syncId EXCEPT ![r] = nextId]
              /\ Goto(r, CASE pc[r] = "A_insert" -> "A_dispatch"
                           [] pc[r] = "B_insert" -> "B_gat_json"
                           [] pc[r] = "C_insert" -> "C_dispatch")
              /\ UNCHANGED <<vbody, gtdTables, idx, allTableData, data, tables>>
         ELSE /\ Log(r, <<"insert_fail">>)
              /\ UNCHANGED <<syncs, nextId, created>>
              /\ OnInsertFailure(r, res)
    /\ UNCHANGED <<handler, body, bodyUsed, dispatches, sourcesVars, clients, session>>

\* the payload of the workflow dispatch
Payload(r) ==
    IF pc[r] = "C_dispatch"
    THEN [body |-> JSONStringify(vbody[r].destinationConfig)]
    ELSE [org_id |-> vbody[r].organization, data |-> JSONStringify(data[r])]

\* a faulty variant of OnDispatchFailure: the first failed trigger is sent
\* once more
OnDispatchFailureRetry(r) ==
    /\ Log(r, <<"dispatch_fail">>)
    /\ IF dispatches[r] = <<>>
       THEN UNCHANGED <<pc, response, locals>>
       ELSE IF pc[r] = "C_dispatch"
       THEN Throw(r, "Failed to send data to Bulker")
       ELSE Return(r, GitHubError(syncId[r]))

\* the workflow trigger failed: handlers A and B answer 422 with the job id,
\* handler C throws into its catch block; none sends the trigger again
OnDispatchFailure(r) ==
    /\ Log(r, <<"dispatch_fail">>)
    /\ IF pc[r] = "C_dispatch"
       THEN Throw(r, "Failed to send data to Bulker")
       ELSE Return(r, GitHubError(syncId[r]))

\* the workflow trigger: accepted, rejected, or unreachable
Dispatch(r) ==
    /\ pc[r] \in {"A_dispatch", "B_dispatch", "C_dispatch"}
    /\ dispatches' = [dispatches EXCEPT ![r] = Append(@, Payload(r))]
    /\ \E res \in {"accepted", "rejected", "unreachable"} :
         IF res = "accepted"
         THEN Log(r, <<"dispatch_ok">>) /\ Return(r, Success(syncId[r]))
         ELSE OnDispatchFailure(r)
    /\ UNCHANGED <<handler, body, bodyUsed, created, syncsVars, sourcesVars,
                   clients, session>>

\* ------------------------------------------------------ the sources routes
\* validateCredentials: requiredFields, each list in the order of the source
RequiredFields(type) ==
    CASE type = "snowflake" ->
           <<"account", "username", "password", "warehouse", "database", "schema">>
      [] type = "bigquery" -> <<"project_id", "private_key", "client_email">>
      [] type = "redshift" -> <<"host", "port", "database", "user", "password">>
      [] type = "clickhouse" -> <<"host", "port", "database", "user", "password">>
      [] OTHER -> <<>>

RegisteredTypes == {"snowflake", "bigquery", "redshift", "clickhouse"}

\* keys requiredFields[type] finds on Object.prototype: the lookup yields a
\* value that is truthy and has no method every
InheritedKeys == {"constructor", "toString", "valueOf", "hasOwnProperty", "__proto__"}

\* the value of credentials[field], undefined when the key is missing
FieldValue(credentials, f) ==
    IF f \in DOMAIN credentials THEN credentials[f] ELSE Undefined

\* the truthiness of a JSON value
Truthy(v) ==
    CASE v.t = "string" -> v.v # <<>>
      [] v.t = "number" -> v.num # 0
      [] v.t = "object" -> TRUE
      [] OTHER -> FALSE

\* String.prototype.trim() over strings of letters and blanks
RECURSIVE TrimStart(_)
TrimStart(cs) ==
    IF cs # <<>> /\ Head(cs) = " " THEN TrimStart(Tail(cs)) ELSE cs

RECURSIVE TrimEnd(_)
TrimEnd(cs) ==
    IF cs # <<>> /\ cs[Len(cs)] = " " THEN TrimEnd(SubSeq(cs, 1, Len(cs) - 1)) ELSE cs

Trim(cs) == TrimEnd(TrimStart(cs))

\* credentials[field] && credentials[field].trim() !== '': "throws" when the
\* value is truthy and has no method trim
FieldCheck(v) ==
    IF ~Truthy(v) THEN "false"
    ELSE IF v.t # "string" THEN "throws"
    ELSE IF Trim(v.v) # <<>> THEN "true" ELSE "false"

\* fields.every(...) from field i on: it stops at the first field that fails
RECURSIVE Every(_, _, _)
Every(fields, credentials, i) ==
    IF i > Len(fields) THEN "true"
    ELSE LET c == FieldCheck(FieldValue(credentials, fields[i]))
         IN IF c = "true" THEN Every(fields, credentials, i + 1) ELSE c

\* validateCredentials(type, credentials): "true", "false", or "throws" when
\* the call raises a TypeError
ValidateCredentials(type, credentials) ==
    IF type \in RegisteredTypes THEN Every(RequiredFields(type), credentials, 1)
    ELSE IF type \in InheritedKeys THEN "throws"
    ELSE "false"

ClickhouseCredentials == [f \in Range(RequiredFields("clickhouse")) |-> Str(<<"x">>)]

\* the credentials a client of the sources routes sends
SourceCredentials ==
    {ClickhouseCredentials,
     [ClickhouseCredentials EXCEPT !["password"] = Str(<<" ">>)],
     [f \in {"host", "port"} |-> Str(<<"x">>)]}

\* a body of POST /sources
SourceBody(type, credentials) ==
    [json |-> TRUE, type |-> type, credentials |-> credentials]

\* the bodies of POST /sources in the specification of the sources routes:
\* besides the ones above, a port that is a number (with and without a host),
\* an empty password, no type, no credentials, a type that is a key of
\* Object.prototype, and a body that is not JSON
SourceBodies ==
    {SourceBody(type, credentials) :
       type \in {"clickhouse", "mysql"}, credentials \in SourceCredentials}
    \cup {SourceBody("clickhouse", [ClickhouseCredentials EXCEPT !["port"] = Num(5432, 1)]),
          SourceBody("clickhouse", [f \in {"port"} |-> Num(5432, 1)]),
          SourceBody("clickhouse", [ClickhouseCredentials EXCEPT !["password"] = Str(<<>>)]),
          SourceBody("", ClickhouseCredentials),
          SourceBody("clickhouse", Undefined),
          SourceBody("constructor", ClickhouseCredentials),
          [json |-> FALSE, type |-> "", credentials |-> Undefined]}

\* auth(): a member of an organization
Member(n) == [userId |-> "u", orgId |-> n, orgSlug |-> "s"]

\* the callers of the sources routes among the sync requests: a member of
\* org_1 and a client that is not signed in
Callers == {Member("org_1"), NoSession}

\* the callers in the specification of the sources routes: also a member of
\* another organization and a user without an active organization
AllCallers ==
    Callers \cup {Member("org_2"), [userId |-> "u", orgId |-> "", orgSlug |-> ""]}

\* the table sources after the store has inserted a row under a fresh id
InsertSource(row) ==
    [i \in DOMAIN sources \cup {nextSourceId} |->
       IF i = nextSourceId THEN row ELSE sources[i]]

SourceResponse(st, err) == [status |-> st, error |-> err]

\* POST /sources, called by c with body b: create a source for the caller's
\* organization; stored: the store accepts the insert
CreateSource(r, c, b, stored) ==
    /\ pc[r] = "idle"
    /\ IF r = 1 THEN TRUE ELSE pc[r - 1] # "idle"
    /\ handler' = [handler EXCEPT ![r] = "sources_POST"]
    /\ pc' = [pc EXCEPT ![r] = "done"]
    /\ session' = [session EXCEPT ![r] = c]
    /\ body' = [body EXCEPT ![r] = b]
    /\ IF c.userId = "" \/ c.orgId = ""
       THEN /\ response' = [response EXCEPT ![r] = SourceResponse(401, "Unauthorized")]
            /\ UNCHANGED sourcesVars
       ELSE IF ~b.json
       THEN \* request.json() rejects, line 61
            /\ response' = [response EXCEPT ![r] =
                              SourceResponse(500, "An unexpected error occurred")]
            /\ UNCHANGED sourcesVars
       ELSE IF b.type = "" \/ b.credentials = Undefined
       THEN /\ response' = [response EXCEPT ![r] =
                              SourceResponse(400, "Type and credentials are required")]
            /\ UNCHANGED sourcesVars
       ELSE IF ValidateCredentials(b.type, b.credentials) = "throws"
       THEN \* the TypeError is caught at line 61
            /\ response' = [response EXCEPT ![r] =
                              SourceResponse(500, "An unexpected error occurred")]
            /\ UNCHANGED sourcesVars
       ELSE IF ValidateCredentials(b.type, b.credentials) = "false"
       THEN /\ response' = [response EXCEPT ![r] =
                     SourceResponse(400, "Invalid credentials for the selected type")]
            /\ UNCHANGED sourcesVars
       ELSE IF ~stored
       THEN /\ response' = [response EXCEPT ![r] =
                              SourceResponse(500, "Failed to insert source")]
            /\ UNCHANGED sourcesVars
       ELSE /\ sources' = InsertSource([type |-> b.type, credentials |-> b.credentials,
                                        organization |-> c.orgId, slug |-> c.orgSlug])
            /\ nextSourceId' = nextSourceId + 1
            /\ response' = [response EXCEPT ![r] =
                              [status |-> 200, data |-> nextSourceId]]
    /\ UNCHANGED <<bodyUsed, locals, history, syncsVars, clients>>

\* POST /sources among the sync requests: complete credentials, of a
\* registered type or not
SourcesPOST(r) ==
    \E c \in Callers, type \in {"clickhouse", "mysql"}, stored \in BOOLEAN :
      CreateSource(r, c, SourceBody(type, ClickhouseCredentials), stored)

\* POST /sources with any of the bodies
SourcesPOSTAny(r) ==
    \E c \in AllCallers, b \in SourceBodies, stored \in BOOLEAN :
      CreateSource(r, c, b, stored)

\* GET /sources?organizationId=o, called by c: the sources of organization o;
\* no session is read; ok: the store answers the select
SourcesGET(r) ==
    /\ pc[r] = "idle"
    /\ IF r = 1 THEN TRUE ELSE pc[r - 1] # "idle"
    /\ handler' = [handler EXCEPT ![r] = "sources_GET"]
    /\ pc' = [pc EXCEPT ![r] = "done"]
    /\ \E c \in AllCallers, o \in {"", "org_1", "org_2"}, ok \in BOOLEAN :
         /\ session' = [session EXCEPT ![r] = c]
         /\ response' = [response EXCEPT ![r] =
              IF o = "" THEN SourceResponse(400, "Organization ID is required")
              ELSE IF ~ok THEN SourceResponse(500, "select failed")
              ELSE [status |-> 200,
                    sources |-> {i \in DOMAIN sources : sources[i].organization = o}]]
    /\ UNCHANGED <<body, bodyUsed, locals, history, syncsVars, sourcesVars, clients>>

\* a faulty variant of DeleteFromSources: the delete is applied to table syncs
DeleteFromSyncs(id) ==
    /\ syncs' = [i \in DOMAIN syncs \ {id} |-> syncs[i]]
    /\ UNCHANGED <<sources, nextSourceId, nextId>>

\* supabase.from('sources').delete().eq('id', id)
DeleteFromSources(id) ==
    /\ sources' = [i \in DOMAIN sources \ {id} |-> sources[i]]
    /\ UNCHANGED <<nextSourceId, syncsVars>>

\* DELETE /sources, called by c: delete the source whose id the body names;
\* no session is read; deleted: the store applies the delete
DeleteSource(r, c) ==
    /\ pc[r] = "idle"
    /\ IF r = 1 THEN TRUE ELSE pc[r - 1] # "idle"
    /\ handler' = [handler EXCEPT ![r] = "sources_DELETE"]
    /\ pc' = [pc EXCEPT ![r] = "done"]
    /\ session' = [session EXCEPT ![r] = c]
    /\ \E id \in 1..NumReq, deleted \in BOOLEAN :
         /\ body' = [body EXCEPT ![r] = [json |-> TRUE, id |-> id]]
         /\ IF ~deleted
            THEN /\ response' = [response EXCEPT ![r] =
                                   [status |-> 500, error |-> "delete failed"]]
                 /\ UNCHANGED <<sourcesVars, syncsVars>>
            ELSE /\ DeleteFromSources(id)
                 /\ response' = [response EXCEPT ![r] =
                                   [status |-> 200, success |-> TRUE]]
    /\ UNCHANGED <<bodyUsed, locals, history, clients>>

\* DELETE /sources among the sync requests: the client is not signed in
SourcesDELETE(r) == DeleteSource(r, NoSession)

\* DELETE /sources by any caller
SourcesDELETEAny(r) == \E c \in AllCallers : DeleteSource(r, c)

\* ------------------------------------------------------------ specification
Next ==
    \/ \E r \in Req : Receive(r)
    \/ \E r \in Req : ReadBody(r)
    \/ \E r \in Req : Validate(r)
    \/ \E r \in Req : ShowTables(r)
    \/ \E r \in Req : SelectTable(r)
    \/ \E r \in Req : Insert(r)
    \/ \E r \in Req : Dispatch(r)
    \/ \E r \in Req : SourcesPOST(r)
    \/ \E r \in Req : SourcesDELETE(r)

Spec == Init /\ [][Next]_vars

\* one request, served alone, the body drawn from AllBodies
NextOne ==
    \/ ReceiveOne
    \/ \E r \in Req : ReadBody(r)
    \/ \E r \in Req : Validate(r)
    \/ \E r \in Req : ShowTables(r)
    \/ \E r \in Req : SelectTable(r)
    \/ \E r \in Req : Insert(r)
    \/ \E r \in Req : Dispatch(r)

SpecOne == Init /\ [][NextOne]_vars

\* the sources routes alone, with any caller and any of the bodies
NextSources ==
    \/ \E r \in Req : SourcesPOSTAny(r)
    \/ \E r \in Req : SourcesGET(r)
    \/ \E r \in Req : SourcesDELETEAny(r)

SpecSources == Init /\ [][NextSources]_vars

\* ------------------------------------------------------------- properties
\* the requests served by one of the three sync handlers
SyncReq == {r \in Req : handler[r] \in {"A", "B", "C"}}

HasEvent(r, e) == \E i \in DOMAIN trace[r] : trace[r][i] = e

Responded(r) == r \in SyncReq /\ pc[r] = "done"

SourceEvents == {"show_tables_ok", "show_tables_fail", "select_ok", "select_fail"}

\* C1: a request that created its job record and whose dispatch trigger then
\* failed is answered with success = false and the id of the record it
\* created, and that record is still in the table (no compensating delete).
C1_DispatchFailureKeepsJob ==
    \A r \in Req :
      (HasEvent(r, "insert_ok") /\ HasEvent(r, "dispatch_fail")) =>
        /\ Responded(r)
        /\ response[r].success = FALSE
        /\ response[r].syncId \in created[r]
        /\ created[r] \subseteq DOMAIN syncs

\* a dispatch failure answered 422 by handler A, and one answered by the
\* catch block of handler C
C1_Witness ==
    \E r1, r2 \in SyncReq :
      /\ HasEvent(r1, "dispatch_fail") /\ response[r1].status = 422
      /\ HasEvent(r2, "dispatch_fail") /\ response[r2].status = 500

\* C2: a request in which SHOW TABLES or the SELECT of a table failed has
\* created no job record, and its response carries syncId null.
C2_ExtractionFailureCreatesNothing ==
    \A r \in Req :
      (HasEvent(r, "show_tables_fail") \/ HasEvent(r, "select_fail")) =>
        /\ created[r] = {}
        /\ Responded(r) => response[r].syncId = Null

\* the second table of a source failed after the first was read, and the
\* request was answered
C2_Witness ==
    \E r \in Req :
      /\ HasEvent(r, "select_ok") /\ HasEvent(r, "select_fail")
      /\ Responded(r) /\ response[r].status = 500

\* the body is JSON and requestSchema rejects it
FailsValidation(r) == r \in SyncReq /\ body[r].json /\ ~RequestSchemaOK(body[r])

\* C3 (as claimed): a request that fails validation is answered with the 400
\* validation failure, and no later stage runs for it: no access to the
\* source, no insert, no dispatch.
C3_InvalidRequestStopsAtValidation ==
    \A r \in Req :
      FailsValidation(r) =>
        /\ \A i \in DOMAIN trace[r] :
             trace[r][i] \notin SourceEvents \cup {"insert_ok", "insert_fail"}
        /\ created[r] = {}
        /\ dispatches[r] = <<>>
        /\ Responded(r) => response[r] = ValidationFailed

\* C4: a request whose insert failed (error, or no row returned) never calls
\* the dispatch trigger, has no record, and is answered without a job id.
C4_InsertFailureStopsPipeline ==
    \A r \in Req :
      HasEvent(r, "insert_fail") =>
        /\ dispatches[r] = <<>>
        /\ ~HasEvent(r, "dispatch_ok") /\ ~HasEvent(r, "dispatch_fail")
        /\ created[r] = {}
        /\ Responded(r)
        /\ response[r].success = FALSE
        /\ response[r].syncId \in {Null, Absent}

\* insert failures answered by handler A ("Database error", no syncId key)
\* and by the catch block of handler C (syncId null)
C4_Witness ==
    \E r1, r2 \in SyncReq :
      /\ HasEvent(r1, "insert_fail") /\ response[r1] = DatabaseError
      /\ HasEvent(r2, "insert_fail") /\ handler[r2] = "C" /\ pc[r2] = "done"

\* e occurs in the trace of r before position i
Before(r, e, i) == \E j \in 1..(i - 1) : trace[r][j] = e

\* C5 (as claimed): the stages of a request run in the order validate,
\* introspect and extract, persist, dispatch: the source is accessed only
\* after validation passed, a record is inserted only after the extraction
\* completed, and the source is not accessed after the insert.
C5_StagesInOrder ==
    \A r \in Req : \A i \in DOMAIN trace[r] :
      /\ trace[r][i] \in SourceEvents =>
           Before(r, "valid", i) /\ ~Before(r, "insert_ok", i)
      /\ trace[r][i] \in {"insert_ok", "insert_fail"} =>
           Before(r, "valid", i) /\ Before(r, "extracted", i)
      /\ trace[r][i] \in {"dispatch_ok", "dispatch_fail"} =>
           Before(r, "insert_ok", i)

\* C6 (as claimed): no exception leaves a handler; every request that was
\* taken up is answered.
C6_NoExceptionEscapes ==
    \A r \in Req : pc[r] # "escaped"

\* C7: a response carries a job id exactly when the request created a job
\* record, and the id is that record's.
C7_JobIdIffRecordCreated ==
    \A r \in Req :
      Responded(r) =>
        /\ response[r].syncId \notin {Null, Absent} <=> created[r] # {}
        /\ created[r] # {} => response[r].syncId \in created[r]

\* a response of the catch block that carries the id of the record created,
\* and a response of a request that created nothing
C7_Witness ==
    \E r1, r2 \in SyncReq :
      /\ pc[r1] = "done" /\ response[r1].status = 500 /\ created[r1] # {}
      /\ pc[r2] = "done" /\ response[r2].status = 500 /\ created[r2] = {}
      /\ HasEvent(r2, "insert_fail")

\* C8 (as claimed): success = true only if validation passed, a complete
\* snapshot was extracted, a record was created and the dispatch was
\* accepted in that request, and syncId is the id of that record.
C8_SuccessMeansAllStagesPassed ==
    \A r \in Req :
      (Responded(r) /\ response[r].success) =>
        /\ HasEvent(r, "valid")
        /\ HasEvent(r, "extracted")
        /\ HasEvent(r, "insert_ok")
        /\ HasEvent(r, "dispatch_ok")
        /\ response[r].syncId \in created[r]

\* the request passed validation and the extraction stage (every call to the
\* source between validation and the insert succeeded), and the store did
\* not fail its insert
Accepted(r) ==
    /\ Responded(r)
    /\ HasEvent(r, "valid") /\ HasEvent(r, "extracted")
    /\ ~HasEvent(r, "show_tables_fail") /\ ~HasEvent(r, "select_fail")
    /\ ~HasEvent(r, "insert_fail")

\* the number of rows the requests of set S have created
RECURSIVE CreatedBy(_)
CreatedBy(S) ==
    IF S = {} THEN 0
    ELSE LET r == CHOOSE x \in S : TRUE
         IN Cardinality(created[r]) + CreatedBy(S \ {r})

\* C9: a request inserts at most one job record, and exactly one when it
\* passed validation and extraction and the store worked; whatever the
\* interleaving, the records of different requests are separate rows with
\* distinct ids, one row per insert (no merge, upsert or de-duplication).
C9_OneRecordPerRequest ==
    /\ \A r \in Req : Cardinality(created[r]) <= 1
    /\ \A r \in Req : Accepted(r) => Cardinality(created[r]) = 1
    /\ \A r1, r2 \in Req : r1 # r2 => created[r1] \cap created[r2] = {}
    /\ \A r \in Req : created[r] \subseteq DOMAIN syncs
    /\ Cardinality(DOMAIN syncs) = CreatedBy(Req)

\* two accepted requests with the same body, served by the same handler,
\* have each created a row
C9_Witness ==
    \E r1, r2 \in SyncReq :
      /\ r1 # r2
      /\ handler[r1] = "A" /\ handler[r2] = "A"
      /\ body[r1] = body[r2]
      /\ Accepted(r1) /\ Accepted(r2)
      /\ Cardinality(DOMAIN syncs) = 2

\* the order of the states of a job; a row inserted without a status has
\* the first one
StatusRank(st) == IF st \in {"failed", "completed"} THEN 1 ELSE 0

\* C10: a job record, once created, stays in the table, and its status never
\* moves back to an earlier state.
C10_JobsAreNeverDeleted ==
    [][\A i \in DOMAIN syncs :
         /\ i \in DOMAIN syncs'
         /\ StatusRank(syncs'[i].status) >= StatusRank(syncs[i].status)]_vars

\* a job whose dispatch failed is in the table, and a DELETE of the sources
\* route that named the id of that job has been served
C10_Witness ==
    \E r \in SyncReq, d \in Req :
      /\ HasEvent(r, "dispatch_fail")
      /\ handler[d] = "sources_DELETE" /\ response[d].status = 200
      /\ created[r] = {body[d].id}
      /\ created[r] \subseteq DOMAIN syncs

\* C11 (as claimed): the status of a response follows from where the request
\* ended: 200 when dispatched, 400 on a validation failure, 500 with syncId
\* null on an extraction failure, 500 on an insert failure, and 422 with the
\* job id on a dispatch failure.
C11_StatusByTerminalState ==
    \A r \in Req :
      Responded(r) =>
        /\ HasEvent(r, "dispatch_ok") => response[r].status = 200
        /\ HasEvent(r, "invalid") => response[r].status = 400
        /\ (HasEvent(r, "show_tables_fail") \/ HasEvent(r, "select_fail")) =>
             response[r].status = 500 /\ response[r].syncId = Null
        /\ HasEvent(r, "insert_fail") => response[r].status = 500
        /\ HasEvent(r, "dispatch_fail") =>
             response[r].status = 422 /\ response[r].syncId \in created[r]

\* the snapshot request r reads from a source whose tables are l
SnapshotOf(r, l) == [t \in Range(l) |-> RowsOf(r, t)]

\* C12 (as claimed): every dispatch a request triggers carries the
\* organization id of that request and the serialized snapshot that same
\* request extracted, whatever the interleaving with other requests.
C12_DispatchCarriesOwnSnapshot ==
    \A r \in Req : \A i \in DOMAIN dispatches[r] :
      LET p == dispatches[r][i]
      IN /\ DOMAIN p = {"org_id", "data"}
         /\ p.org_id = body[r].organization
         /\ \E l \in TableLists : p.data = JSONStringify(SnapshotOf(r, l))

\* C13 (as claimed): the link_type of the row a request inserted is the
\* link_type of the request in lower case.
C13_LinkTypeStoredLowerCase ==
    \A r \in Req : \A id \in created[r] :
      id \in DOMAIN syncs =>
        syncs[id].link_type = Str(ToLowerCase(body[r].link_type.v))

\* the body has a key the schema does not name: at the top level, in
\* destination_config, or in destination_config.options
HasUnknownKey(b) ==
    /\ b.json
    /\ \/ b.extra
       \/ /\ b.destination_config.t = "object"
          /\ \/ b.destination_config.extra
             \/ /\ b.destination_config.options.t = "object"
                /\ b.destination_config.options.extra

\* C14 (as claimed): a sync request with a field outside the schema, at any
\* of the three levels, does not pass validation, creates no job record, and
\* when it is answered the answer is the 400 validation failure.
C14_UnknownFieldRejected ==
    \A r \in Req :
      (r \in SyncReq /\ HasUnknownKey(body[r])) =>
        /\ ~HasEvent(r, "valid")
        /\ created[r] = {}
        /\ Responded(r) => response[r] = ValidationFailed


\* a mapping with at least one entry
IsNonEmptyMapping(x) == x.t = "object" /\ x.keys # {}

\* a number that is a positive integer
IsPositiveInteger(x) == x.t = "number" /\ x.den = 1 /\ x.num > 0

\* the field rules as the claim states them; mode and batchSize may be left
\* out, and so may options
FieldRulesHold(b) ==
    /\ b.json
    /\ IsNonEmptyString(b.organization)
    /\ IsNonEmptyString(b.internal_warehouse)
    /\ IsNonEmptyString(b.link_type)
    /\ IsNonEmptyMapping(b.internal_credentials)
    /\ b.destination_config.t = "object"
    /\ b.destination_config.type.t = "string"
    /\ IsNonEmptyMapping(b.destination_config.credentials)
    /\ \/ b.destination_config.options = Undefined
       \/ /\ b.destination_config.options.t = "object"
          /\ b.destination_config.options.mode \in {Undefined, Stream, Batch}
          /\ \/ b.destination_config.options.batchSize = Undefined
             \/ IsPositiveInteger(b.destination_config.options.batchSize)

\* C15 (as claimed): the validator accepts a body exactly when the field
\* rules hold, and a request whose body breaks a rule creates no job record.
\* Bodies with unknown keys are left to C14.
C15_ValidatorAcceptsExactlyFieldRules ==
    \A r \in Req :
      (r \in SyncReq /\ body[r].json /\ ~HasUnknownKey(body[r])) =>
        /\ HasEvent(r, "valid") => FieldRulesHold(body[r])
        /\ HasEvent(r, "invalid") => ~FieldRulesHold(body[r])
        /\ ~FieldRulesHold(body[r]) => created[r] = {}


\* the request names no options: it has no destination_config.options (and,
\* for the handler that reads destinationConfig, none there either)
OmitsOptions(b) ==
    /\ b.json
    /\ b.destination_config.t = "object"
    /\ b.destination_config.options = Undefined
    /\ b.destinationConfig = Undefined

\* C16 (as claimed): the job record of a valid request that omits
\* destination_config.options holds a destination config whose options are
\* mode stream and batchSize 10000.
C16_OmittedOptionsStoredAsDefault ==
    \A r \in Req : \A id \in created[r] :
      (id \in DOMAIN syncs /\ RequestSchemaOK(body[r]) /\ OmitsOptions(body[r])) =>
        /\ syncs[id].destination_config.t = "object"
        /\ syncs[id].destination_config.options = DefaultOptions


\* C17: extraction is all or nothing. A request for which the query of a
\* table failed has no snapshot: its extraction did not complete, it has
\* created no job record and triggered no dispatch, and it is over. And
\* whenever a request dispatches a snapshot, the snapshot has an entry, read
\* by this request, for every table of the list it was extracting.
C17_ExtractionAllOrNothing ==
    /\ [](\A r \in Req :
            HasEvent(r, "select_fail") =>
              /\ ~HasEvent(r, "extracted")
              /\ created[r] = {}
              /\ dispatches[r] = <<>>
              /\ pc[r] \in {"done", "escaped"})
    /\ [][\A r \in Req :
            (dispatches'[r] # dispatches[r] /\ handler[r] # "C") =>
              LET p == dispatches'[r][Len(dispatches'[r])]
              IN p.data = JSONStringify(SnapshotOf(r, gtdTables[r]))]_vars

\* the first table was read, the query of the second failed, and the request
\* was answered with the error and no job id
C17_Witness ==
    \E r \in Req :
      /\ HasEvent(r, "select_ok") /\ HasEvent(r, "select_fail")
      /\ Responded(r)
      /\ response[r] = CaughtError(Null, "SELECT failed")


\* C18: a request whose source listed no table still has a complete (empty)
\* extraction and goes on: unless a later call to the source fails it reaches
\* the insert, a created job record is followed by one dispatch whose
\* snapshot is the empty map, and when the dispatch is accepted the answer is
\* success with the id of the record created.
C18_NoTablesStillProceeds ==
    \A r \in Req :
      HasEvent(r, "no_tables") =>
        /\ HasEvent(r, "extracted")
        /\ (Responded(r) /\ ~HasEvent(r, "show_tables_fail")) =>
             (HasEvent(r, "insert_ok") \/ HasEvent(r, "insert_fail"))
        /\ (Responded(r) /\ HasEvent(r, "insert_ok")) =>
             /\ created[r] # {}
             /\ Len(dispatches[r]) = 1
             /\ dispatches[r][1].data = JSONStringify(EmptyMap)
        /\ (Responded(r) /\ HasEvent(r, "dispatch_ok")) =>
             \E id \in created[r] : response[r] = Success(id)

\* a source without tables, a job record created, an accepted dispatch of the
\* empty snapshot, and the success answer
C18_Witness ==
    \E r \in Req :
      /\ HasEvent(r, "no_tables") /\ HasEvent(r, "dispatch_ok")
      /\ Responded(r)
      /\ response[r].success
      /\ dispatches[r] = <<[org_id |-> body[r].organization,
                            data |-> JSONStringify(EmptyMap)]>>


\* the registered type a link type names, "" when it names none
TypeNamed(lt) == IF Str(ToLowerCase(lt.v)) = Clickhouse THEN "clickhouse" ELSE ""

\* the source credentials of the body lack a field that validateCredentials
\* requires for the link type of the body
LacksRequiredField(b) ==
    /\ b.json
    /\ b.link_type.t = "string"
    /\ b.internal_credentials.t = "object"
    /\ TypeNamed(b.link_type) \in RegisteredTypes
    /\ ~(Range(RequiredFields(TypeNamed(b.link_type))) \subseteq
           b.internal_credentials.keys)

\* C19 (as claimed): a sync request whose source credentials lack a required
\* field of its link type never reaches the source (no SHOW TABLES, no
\* SELECT), and its answer is a failure that is not a source failure.
C19_CredentialShapeCheckedBeforeSource ==
    \A r \in Req :
      (r \in SyncReq /\ LacksRequiredField(body[r])) =>
        /\ \A i \in DOMAIN trace[r] : trace[r][i] \notin SourceEvents
        /\ Responded(r) =>
             /\ ~response[r].success
             /\ response[r].error \notin {"SHOW TABLES failed", "SELECT failed"}


\* C20 (as claimed): when a sync request has been answered, none of its
\* clients holds a connection to the source any more.
C20_ConnectionsReleasedAtResponse ==
    \A r \in Req : Responded(r) => clients[r] = 0


\* request r, being served in this step, comes from a signed-in member of
\* organization org
ServedForMemberOf(r, org) ==
    /\ pc[r] = "idle" /\ pc'[r] = "done"
    /\ session'[r].userId # ""
    /\ session'[r].orgId = org

\* a step removes source i only when it serves a DELETE of a member of the
\* organization that owns i
DeletedOnlyByOwner ==
    \A i \in DOMAIN sources :
      i \notin DOMAIN sources' =>
        \E r \in Req : /\ handler'[r] = "sources_DELETE"
                       /\ ServedForMemberOf(r, sources[i].organization)

\* a step that answers a GET with source records serves a member of the
\* organization that owns each of them
ListedOnlyToOwner ==
    \A r \in Req :
      (pc[r] = "idle" /\ handler'[r] = "sources_GET" /\ response'[r].status = 200) =>
        \A i \in response'[r].sources : ServedForMemberOf(r, sources[i].organization)

\* C21 (as claimed): a source record is deleted or listed only by a request
\* of a signed-in caller who belongs to the organization that owns it.
C21_SourcesGuardedByOrganization ==
    [][DeletedOnlyByOwner /\ ListedOnlyToOwner]_vars


\* the external call an event of the trace reports, "" for the others
CallOf(e) ==
    CASE e \in {"show_tables_ok", "show_tables_fail"} -> "show_tables"
      [] e \in {"select_ok", "select_fail"} -> "select"
      [] e \in {"insert_ok", "insert_fail"} -> "insert"
      [] e \in {"dispatch_ok", "dispatch_fail"} -> "dispatch"
      [] OTHER -> ""

FailureEvents == {"show_tables_fail", "select_fail", "insert_fail", "dispatch_fail"}

\* the number of events of trace[r] that report call c
RECURSIVE CallsFrom(_, _, _)
CallsFrom(r, c, i) ==
    IF i > Len(trace[r]) THEN 0
    ELSE (IF CallOf(trace[r][i]) = c THEN 1 ELSE 0) + CallsFrom(r, c, i + 1)

\* C22: within one sync request a call that failed is not issued again (no
\* event of the same call follows its failure), and the insert and the
\* dispatch trigger are each issued at most once.
C22_NothingIsRetried ==
    \A r \in Req :
      /\ \A i \in DOMAIN trace[r] :
           trace[r][i] \in FailureEvents =>
             CallsFrom(r, CallOf(trace[r][i]), i + 1) = 0
      /\ CallsFrom(r, "insert", 1) <= 1
      /\ CallsFrom(r, "dispatch", 1) <= 1
      /\ Len(dispatches[r]) = CallsFrom(r, "dispatch", 1)
      /\ Cardinality(created[r]) <= CallsFrom(r, "insert", 1)

\* a request whose dispatch trigger failed has been answered after that one
\* attempt
C22_Witness ==
    \E r \in Req :
      /\ Responded(r)
      /\ trace[r][Len(trace[r])] = "dispatch_fail"
      /\ Len(dispatches[r]) = 1
      /\ CallsFrom(r, "insert", 1) = 1


\* C23: the snapshot of a request holds exactly the tables of the list its
\* getTableData obtained, each with the rows this request read; the tables
\* enter it one per step in the order of that list; and the list of another
\* getAllTables call of the request leaves the snapshot as it is.
C23_SnapshotMatchesIntrospection ==
    /\ [](\A r \in Req :
            data[r] # NoData => data[r] = SnapshotOf(r, gtdTables[r]))
    /\ [][\A r \in Req :
            /\ (allTableData'[r] # allTableData[r] /\ allTableData'[r] # EmptyMap) =>
                 /\ gtdTables'[r] = gtdTables[r]
                 /\ allTableData'[r] = SnapshotOf(r, SubSeq(gtdTables[r], 1, idx[r]))
            /\ tables'[r] # tables[r] => data'[r] \in {data[r], NoData}]_vars

\* a complete snapshot of a list with tables, in a request whose second
\* getAllTables call returned another list
C23_Witness ==
    \E r \in Req :
      /\ pc[r] = "A_insert"
      /\ gtdTables[r] # <<>>
      /\ tables[r] # gtdTables[r]
      /\ data[r] = SnapshotOf(r, gtdTables[r])


\* the request is over: answered, or left by an exception
Over(r) == r \in SyncReq /\ pc[r] \in {"done", "escaped"}

\* C24 (as claimed): no handler reads the body of a request after it has been
\* consumed, and a request with a valid body that ended without a failure of
\* the source has reached the insert.
C24_BodyReadOnce ==
    \A r \in Req :
      r \in SyncReq =>
        /\ ~HasEvent(r, "json_used")
        /\ (/\ Over(r)
            /\ body[r].json /\ RequestSchemaOK(body[r])
            /\ ~HasEvent(r, "show_tables_fail") /\ ~HasEvent(r, "select_fail")) =>
             (HasEvent(r, "insert_ok") \/ HasEvent(r, "insert_fail"))


\* a field value that is present and not blank
PresentNotBlank(v) ==
    CASE v.t = "string" -> Trim(v.v) # <<>>
      [] v.t = "number" -> TRUE
      [] OTHER -> FALSE

\* the conditions of the claim, for the request served in this step: the
\* caller has a user id and an organization id, the type is registered, and
\* every field required for the type is present and not blank
MayCreateSource(r) ==
    /\ session'[r].userId # "" /\ session'[r].orgId # ""
    /\ body'[r].json
    /\ body'[r].type \in RegisteredTypes
    /\ body'[r].credentials # Undefined
    /\ \A f \in Range(RequiredFields(body'[r].type)) :
         PresentNotBlank(FieldValue(body'[r].credentials, f))

\* C25 (as claimed): a step that serves POST /sources inserts a row only
\* under the conditions above, and then one row of the caller's organization
\* with no other row touched; when the conditions do not hold it answers 401
\* or 400 and leaves the table as it is.
C25_CreateSourceGuarded ==
    [][\A r \in Req :
         (pc[r] = "idle" /\ handler'[r] = "sources_POST") =>
           /\ sources' # sources =>
                /\ MayCreateSource(r)
                /\ \A i \in DOMAIN sources : i \in DOMAIN sources' /\ sources'[i] = sources[i]
                /\ \A i \in DOMAIN sources' \ DOMAIN sources :
                     sources'[i].organization = session'[r].orgId
           /\ ~MayCreateSource(r) =>
                /\ response'[r].status \in {401, 400}
                /\ sources' = sources]_vars


====
